---- MODULE Spec2Model ----
(***************************************************************************)
(* Model of FullLatticeSimulation.py: the script that builds a beam        *)
(* lattice in the simulation host (model, part, datum points, wires,       *)
(* mesh, profiles, material, sections, assembly, sets, step, boundary      *)
(* conditions, output requests, job).                                      *)
(*                                                                         *)
(* The host database is the record mdb.  Python lists are sequences; a     *)
(* Python index i is position i + 1 (operator Py).  Strings the code       *)
(* inspects character by character (region names, positions) are          *)
(* sequences of one-character strings.  Coordinates are multiples of the   *)
(* cell size 10, so that the midpoint a + (b - a) / 2 is exact.            *)
(***************************************************************************)
EXTENDS Integers, Sequences, FiniteSets, TLC

VARIABLES lattice, MethodSim, AnalysisType, mdb, pc, log, loc, err, call

vars == <<lattice, MethodSim, AnalysisType, mdb, pc, log, loc, err, call>>

(***************************************************************************)
(* Bounds of the model.                                                    *)
(***************************************************************************)
MaxNodes == 3
MaxBeams == 2
MaxRadius == 2
MaxRadiusValue == 2
MaxNodeData == 2
MaxSteps == 3

(***************************************************************************)
(* Generic helpers.                                                        *)
(***************************************************************************)
Py(s, i) == s[i + 1]

Range(s) == {s[i] : i \in DOMAIN s}

SeqsUpTo(S, lo, hi) == UNION {[1..n -> S] : n \in lo..hi}

Min(S) == CHOOSE a \in S : \A b \in S : a =< b

Max(S) == CHOOSE a \in S : \A b \in S : a >= b

None == "None"

NoEdge == <<>>

NoMatch == <<>>

Put(f, k, v) == [x \in (DOMAIN f) \cup {k} |-> IF x = k THEN v ELSE f[x]]

Empty == [x \in {} |-> None]

(***************************************************************************)
(* The values of the names the script and the documentation use.           *)
(***************************************************************************)
S_AllBeams == <<"A", "l", "l", "B", "e", "a", "m", "s">>
S_BeamMid == <<"B", "e", "a", "m", "M", "i", "d">>
S_BeamMod == <<"B", "e", "a", "m", "M", "o", "d">>

Layer(axis, n) == <<axis, n>>

DocumentedRegions ==
    {S_AllBeams, S_BeamMid, S_BeamMod}
        \cup {Layer(a, n) : a \in {"X", "Y", "Z"}, n \in {"1", "2", "3"}}

Positions == {<<a, s>> : a \in {"x", "y", "z"}, s \in {"+", "-"}}

(***************************************************************************)
(* The lattice handed over by the Lattice library: nodes [idx, x, y, z],   *)
(* beams [idx, node1, node2, type], one radius per beam family, the        *)
(* bounding box of the nodes, the cell counts and the cell sizes.          *)
(***************************************************************************)
cell_size == 10
number_cell_X == 2
number_cell_Y == 2
number_cell_Z == 2

PointSeq ==
    << <<0, 0, 0>>, <<10, 10, 10>>, <<20, 20, 20>>, <<20, 0, 0>>, <<0, 20, 20>>,
       <<0, 20, 0>> >>

NodesOf(n) == [k \in 1..n |-> <<k - 1, PointSeq[k][1], PointSeq[k][2], PointSeq[k][3]>>]

BeamChoices(n) ==
    {c \in (0..(n - 1)) \X (0..(n - 1)) \X {0, 1} : c[1] < c[2]}

BeamsOf(s) == [k \in DOMAIN s |-> <<k - 1, s[k][1], s[k][2], s[k][3]>>]

Lattice(n, bs, radius) ==
    LET nodes == NodesOf(n) IN
    [nodes |-> nodes,
     beams |-> BeamsOf(bs),
     radius |-> radius,
     xMin |-> Min({nodes[k][2] : k \in 1..n}),
     xMax |-> Max({nodes[k][2] : k \in 1..n}),
     yMin |-> Min({nodes[k][3] : k \in 1..n}),
     yMax |-> Max({nodes[k][3] : k \in 1..n}),
     zMin |-> Min({nodes[k][4] : k \in 1..n}),
     zMax |-> Max({nodes[k][4] : k \in 1..n}),
     numCellsX |-> number_cell_X,
     numCellsY |-> number_cell_Y,
     numCellsZ |-> number_cell_Z,
     cellSizeX |-> cell_size,
     cellSizeY |-> cell_size,
     cellSizeZ |-> cell_size]

Radii == SeqsUpTo(1..MaxRadiusValue, 1, MaxRadius)

Geometries(n) == {<<n, bs>> : bs \in SeqsUpTo(BeamChoices(n), 1, MaxBeams)}

Lattices ==
    {Lattice(g[1], g[2], r) :
        g \in UNION {Geometries(n) : n \in {k \in 2..MaxNodes : k =< Len(PointSeq)}},
        r \in Radii}

(***************************************************************************)
(* The host database before the script runs, and the script's locals.      *)
(***************************************************************************)
name_Job == "Job_1"
name_Assembly == "Lattice_assembly"

InitMdb ==
    [model |-> FALSE, part |-> FALSE, datums |-> Empty, edges |-> {},
     meshed |-> FALSE, sets |-> Empty, orient |-> {}, profiles |-> Empty,
     materials |-> {}, sections |-> Empty, assign |-> {}, instances |-> {},
     asets |-> Empty, steps |-> <<"Initial">>, stepdef |-> Empty, bcs |-> {},
     history |-> {}, field |-> Empty, jobs |-> Empty, viewport |-> None]

InitLoc ==
    [name_Beam_Profile |-> None, Region_mid |-> None, Region_Ext |-> None,
     AllBeam |-> None, name_material |-> None]

NoCall == [op |-> None]

(***************************************************************************)
(* Geometry of the host: datum points, wire edges, findAt and              *)
(* getByBoundingBox.                                                       *)
(***************************************************************************)
CreateModel(m) == [m EXCEPT !.model = TRUE]

CreatePart(m) == [m EXCEPT !.part = TRUE, !.edges = {}]

DatumKey(i) == IF i + 2 > 999 THEN i + 3 ELSE i + 2

CreateNodes(m) ==
    [m EXCEPT !.datums =
        [k \in {DatumKey(i) : i \in 0..(Len(lattice.nodes) - 1)} |->
            LET i == CHOOSE j \in 0..(Len(lattice.nodes) - 1) : DatumKey(j) = k
            IN  <<Py(Py(lattice.nodes, i), 1), Py(Py(lattice.nodes, i), 2),
                  Py(Py(lattice.nodes, i), 3)>>]]

CreateBeams(m) ==
    LET d2 == m.datums
        idx_default == 2
        idx(n) == IF n + 2 > 999 THEN 3 ELSE idx_default
        beam_points ==
            [i \in 1..Len(lattice.beams) |->
                <<d2[lattice.beams[i][2] + idx(lattice.beams[i][2])],
                  d2[lattice.beams[i][3] + idx(lattice.beams[i][3])]>>]
    IN  [m EXCEPT !.edges = Range(beam_points)]

mesh_Part(m) == [m EXCEPT !.meshed = TRUE]

Cross(u, v) ==
    <<u[2] * v[3] - u[3] * v[2], u[3] * v[1] - u[1] * v[3], u[1] * v[2] - u[2] * v[1]>>

Between(a, x, b) == (a =< x /\ x =< b) \/ (b =< x /\ x =< a)

OnEdge(p, e) ==
    LET a == e[1]
        b == e[2]
        u == <<p[1] - a[1], p[2] - a[2], p[3] - a[3]>>
        v == <<b[1] - a[1], b[2] - a[2], b[3] - a[3]>>
    IN  /\ Cross(u, v) = <<0, 0, 0>>
        /\ \A k \in 1..3 : Between(a[k], p[k], b[k])

findAt(E, p) == {e \in E : OnEdge(p, e)}

InBox(p, box) ==
    /\ box.xMin =< p[1] /\ p[1] =< box.xMax
    /\ box.yMin =< p[2] /\ p[2] =< box.yMax
    /\ box.zMin =< p[3] /\ p[3] =< box.zMax

getByBoundingBox(E, box) == {e \in E : InBox(e[1], box) /\ InBox(e[2], box)}

LatticeBox ==
    [xMin |-> lattice.xMin, yMin |-> lattice.yMin, zMin |-> lattice.zMin,
     xMax |-> lattice.xMax, yMax |-> lattice.yMax, zMax |-> lattice.zMax]

Region(name, E) == [set |-> name, edges |-> E]

(***************************************************************************)
(* re.search(r'\d+', s) and int(...): the first maximal run of digits.     *)
(***************************************************************************)
Digits == <<"0", "1", "2", "3", "4", "5", "6", "7", "8", "9">>

IsDigit(c) == c \in Range(Digits)

DigitValue(c) == (CHOOSE k \in DOMAIN Digits : Digits[k] = c) - 1

re_search_digits(s) ==
    IF \A k \in DOMAIN s : ~IsDigit(s[k])
    THEN NoMatch
    ELSE LET first == Min({k \in DOMAIN s : IsDigit(s[k])})
             last == Max({k \in first..Len(s) : \A j \in first..k : IsDigit(s[j])})
         IN  SubSeq(s, first, last)

RECURSIVE int(_)
int(ds) ==
    IF ds = <<>> THEN 0
    ELSE 10 * int(SubSeq(ds, 1, Len(ds) - 1)) + DigitValue(ds[Len(ds)])

(***************************************************************************)
(* selectBeamRegion.  pick[i] is what e.findAt returns at the midpoint of  *)
(* beam i: the host returns one of the edges lying there.                  *)
(***************************************************************************)
MidPoint(i) ==
    LET n1 == Py(lattice.nodes, Py(Py(lattice.beams, i), 1))
        n2 == Py(lattice.nodes, Py(Py(lattice.beams, i), 2))
    IN  <<Py(n1, 1) + (Py(n2, 1) - Py(n1, 1)) \div 2,
          Py(n1, 2) + (Py(n2, 2) - Py(n1, 2)) \div 2,
          Py(n1, 3) + (Py(n2, 3) - Py(n1, 3)) \div 2>>

FindAtPicks(E) ==
    {f \in [0..(Len(lattice.beams) - 1) -> E \cup {NoEdge}] :
        \A i \in DOMAIN f :
            IF findAt(E, MidPoint(i)) = {}
            THEN f[i] = NoEdge
            ELSE f[i] \in findAt(E, MidPoint(i))}

SetByBoolean_UNION(a, b) == a \cup b

SetByBoolean_DIFFERENCE(a, b) == a \ b

LayerBox(axis, couche_number) ==
    CASE axis = "X" ->
            [LatticeBox EXCEPT
                !.xMin = lattice.xMax
                            - ((lattice.numCellsX + 1 - couche_number) * lattice.cellSizeX),
                !.xMax = lattice.xMax
                            - ((lattice.numCellsX - couche_number) * lattice.cellSizeX)]
      [] axis = "Y" ->
            [LatticeBox EXCEPT
                !.yMin = lattice.yMax
                            - ((lattice.numCellsY + 1 - couche_number) * lattice.cellSizeY),
                !.yMax = lattice.yMax
                            - ((lattice.numCellsY - couche_number) * lattice.cellSizeY)]
      [] axis = "Z" ->
            [LatticeBox EXCEPT
                !.zMin = lattice.zMax
                            - ((lattice.numCellsZ + 1 - couche_number) * lattice.cellSizeZ),
                !.zMax = lattice.zMax
                            - ((lattice.numCellsZ - couche_number) * lattice.cellSizeZ)]

LayerStep(acc, axis, name_region, couche_number) ==
    IF axis \in Range(name_region)
    THEN LET edges == getByBoundingBox(acc.m.edges, LayerBox(axis, couche_number))
         IN  [m |-> [acc.m EXCEPT !.sets = Put(@, name_region, edges)],
              ret |-> Region(name_region, edges),
              bound |-> TRUE,
              err |-> acc.err]
    ELSE acc

selectBeamRegion(m, name_region, pick) ==
    LET e == m.edges
    IN  IF name_region = S_AllBeams
        THEN LET edges == getByBoundingBox(e, LatticeBox)
             IN  [m |-> [m EXCEPT !.sets = Put(@, name_region, edges)],
                  ret |-> Region(name_region, edges),
                  bound |-> TRUE,
                  err |-> None]
        ELSE IF name_region = S_BeamMod
        THEN LET edges == getByBoundingBox(e, LatticeBox)
                 edges_mid ==
                    {pick[i] : i \in {j \in DOMAIN pick : Py(Py(lattice.beams, j), 3) = 0}}
                        \ {NoEdge}
                 ext == SetByBoolean_DIFFERENCE(edges, edges_mid)
                 sets1 == Put(m.sets, S_AllBeams, edges)
                 sets2 == Put(sets1, S_BeamMid, edges_mid)
                 sets3 == Put(sets2, S_BeamMod, ext)
             IN  [m |-> [m EXCEPT !.sets = sets3],
                  ret |-> <<Region(S_BeamMid, edges_mid), Region(S_BeamMod, ext)>>,
                  bound |-> TRUE,
                  err |-> None]
        ELSE LET found == re_search_digits(name_region)
             IN  IF found = NoMatch
                 THEN [m |-> m, ret |-> None, bound |-> FALSE, err |-> "AttributeError"]
                 ELSE LET couche_number == int(found)
                          a0 == [m |-> m, ret |-> None, bound |-> FALSE, err |-> None]
                          a1 == LayerStep(a0, "X", name_region, couche_number)
                          a2 == LayerStep(a1, "Y", name_region, couche_number)
                          a3 == LayerStep(a2, "Z", name_region, couche_number)
                      IN  IF ~a3.bound
                          THEN [a3 EXCEPT !.err = "UnboundLocalError"]
                          ELSE a3

(***************************************************************************)
(* Profiles, material, sections.  list(set(lattice.radius)) has the        *)
(* distinct radii in an order the language leaves open: uniqueRadius is    *)
(* any enumeration of them.                                                *)
(***************************************************************************)
UniqueOrders(radius) ==
    {u \in [1..Cardinality(Range(radius)) -> Range(radius)] :
        \A i, j \in DOMAIN u : i # j => u[i] # u[j]}

getUniqueRadius(order) == order

str(r) == IF r < 10 THEN <<Digits[r + 1]>> ELSE <<Digits[(r \div 10) + 1], Digits[(r % 10) + 1]>>

ProfileName(name_Beam_Profile, r) == <<name_Beam_Profile, "_">> \o str(r)

CircularProfiles(m, name_Beam_Profile, uniqueRadius) ==
    [k \in (DOMAIN m.profiles)
            \cup {ProfileName(name_Beam_Profile, uniqueRadius[i]) : i \in DOMAIN uniqueRadius} |->
        IF \E i \in DOMAIN uniqueRadius : ProfileName(name_Beam_Profile, uniqueRadius[i]) = k
        THEN LET i == CHOOSE j \in DOMAIN uniqueRadius :
                        ProfileName(name_Beam_Profile, uniqueRadius[j]) = k
             IN  [shape |-> "Circular", r |-> uniqueRadius[i]]
        ELSE m.profiles[k]]

Create_Beam_Profile_Mod(m, name_region, name_Beam_Profile, pick, order) ==
    LET sel == selectBeamRegion(m, name_region, pick)
        Region_mid == sel.ret[1]
        Region_Ext == sel.ret[2]
        m1 == [sel.m EXCEPT !.orient = @ \cup {Region_mid.set, Region_Ext.set}]
        uniqueRadius == getUniqueRadius(order)
        name == [i \in DOMAIN uniqueRadius |-> ProfileName(name_Beam_Profile, uniqueRadius[i])]
    IN  [m |-> [m1 EXCEPT !.profiles = CircularProfiles(m1, name_Beam_Profile, uniqueRadius)],
         name |-> name, Region_mid |-> Region_mid, Region_Ext |-> Region_Ext]

Create_Beam_Profile(m, name_region, name_Beam_Profile, pick, order) ==
    LET sel == selectBeamRegion(m, name_region, pick)
        AllBeams == sel.ret
        m1 == [sel.m EXCEPT !.orient = @ \cup {AllBeams.set}]
        uniqueRadius == getUniqueRadius(order)
        name == [i \in DOMAIN uniqueRadius |-> ProfileName(name_Beam_Profile, uniqueRadius[i])]
    IN  [m |-> [m1 EXCEPT !.profiles = CircularProfiles(m1, name_Beam_Profile, uniqueRadius)],
         name |-> name, AllBeams |-> AllBeams]

MatName(Material_Type, Material_Carac) == <<"Material", Material_Type, Material_Carac>>

create_material(m, Material_Type, Material_Carac) ==
    LET name == MatName(Material_Type, Material_Carac)
        plastic ==
            IF Material_Carac = 1 /\ Material_Type = 0 THEN "table"
            ELSE IF Material_Carac = 1 /\ Material_Type = 4 THEN "table"
            ELSE IF Material_Carac = 1 /\ Material_Type = 3 THEN "JOHNSON_COOK"
            ELSE None
    IN  [m |-> [m EXCEPT !.materials = @ \cup {[name |-> name, plastic |-> plastic]}],
         name |-> name]

Create_Beam_Section(m, name_Section, name_material, name_Beam_Profile, Reg) ==
    [m EXCEPT
        !.sections = Put(@, name_Section,
                         [profile |-> name_Beam_Profile, material |-> name_material]),
        !.assign = @ \cup {[region |-> Reg.set, edges |-> Reg.edges,
                            sectionName |-> name_Section]}]

(***************************************************************************)
(* Assembly and node sets.  A vertex is identified by its location.        *)
(***************************************************************************)
Assembly_beam(m) == [m EXCEPT !.instances = @ \cup {name_Assembly}]

Direction(Position) ==
    IF "x" \in Range(Position) THEN 1
    ELSE IF "y" \in Range(Position) THEN 2
    ELSE IF "z" \in Range(Position) THEN 3
    ELSE 0

valselected_max_only(lat, Position) ==
    IF "x" \in Range(Position) THEN lat.xMax
    ELSE IF "y" \in Range(Position) THEN lat.yMax
    ELSE IF "z" \in Range(Position) THEN lat.zMax
    ELSE 0

valselected(lat, Position) ==
    IF "x" \in Range(Position)
    THEN IF "+" \in Range(Position) THEN lat.xMax ELSE lat.xMin
    ELSE IF "y" \in Range(Position)
    THEN IF "+" \in Range(Position) THEN lat.yMax ELSE lat.yMin
    ELSE IF "z" \in Range(Position)
    THEN IF "+" \in Range(Position) THEN lat.zMax ELSE lat.zMin
    ELSE 0

RECURSIVE verts1(_, _, _, _)
verts1(node_data, Dir, val, i) ==
    IF i >= Len(node_data) THEN <<>>
    ELSE LET nd == Py(node_data, i)
             rest == verts1(node_data, Dir, val, i + 1)
         IN  IF Py(nd, Dir) = val
             THEN <<(<<Py(nd, 1), Py(nd, 2), Py(nd, 3)>>)>> \o rest
             ELSE rest

CreateSet(m, lat, name_Set, Position, node_data) ==
    [m EXCEPT !.asets =
        Put(@, name_Set, verts1(node_data, Direction(Position), valselected(lat, Position), 0))]

(***************************************************************************)
(* Step, boundary conditions, output requests, job.                        *)
(***************************************************************************)
InsertAfter(steps, previous, name) ==
    LET k == CHOOSE j \in DOMAIN steps : steps[j] = previous
    IN  SubSeq(steps, 1, k) \o <<name>> \o SubSeq(steps, k + 1, Len(steps))

StaticStep(m, name, previous, stabilization) ==
    [m EXCEPT
        !.steps = InsertAfter(@, previous, name),
        !.stepdef = Put(@, name, [kind |-> "StaticStep", nlgeom |-> TRUE,
                                  stabilization |-> stabilization]),
        !.history = IF Len(m.steps) = 1 THEN @ \cup {"H-Output-1"} ELSE @,
        !.field = IF Len(m.steps) = 1 THEN Put(@, "F-Output-1", "PRESELECT") ELSE @]

Create_Step(m, name_step, name_previous_step, AType) ==
    IF AType = 1
    THEN StaticStep(m, name_step, name_previous_step, TRUE)
    ELSE IF AType = 2
    THEN StaticStep(m, name_step, name_previous_step, FALSE)
    ELSE m

Create_BC_Fixed(m, name_step, name_set) ==
    [m EXCEPT !.bcs = @ \cup {[name |-> "Fixed", kind |-> "EncastreBC",
                               createStepName |-> name_step, region |-> name_set,
                               u |-> <<0, 0, 0>>]}]

Create_Loads(m, name_step, name_set, name_load, vector_load) ==
    [m EXCEPT !.bcs = @ \cup {[name |-> name_load, kind |-> "DisplacementBC",
                               createStepName |-> name_step, region |-> name_set,
                               u |-> vector_load]}]

Create_GetReactionForce(m, name_step, name_set) ==
    [m EXCEPT !.history = @ \cup {"Reaction_Force"}]

Create_GetDisplacement(m, name_step, name_set) ==
    [m EXCEPT !.history = @ \cup {"Displacement"}]

Delete_output_default(m) ==
    [m EXCEPT !.history = @ \ {"H-Output-1"},
              !.field = Put(@, "F-Output-1", "S,PE,PEEQ,U,RF")]

Submit_Job(m, nJob) ==
    [m EXCEPT !.jobs = Put(@, nJob, "SUBMITTED")]

SetAbaqusWindows(m) == [m EXCEPT !.viewport = "part"]

compressionPourcent == 20

displacementCompression == ((lattice.zMax - lattice.zMin) * compressionPourcent) \div 100

load_vector == <<0, 0, 0 - displacementCompression>>

(***************************************************************************)
(* The module script: one action per call, in program order.  pc names     *)
(* the call about to be made; log records the calls made.                  *)
(***************************************************************************)
Config == <<lattice, MethodSim, AnalysisType>>

Call(op, m, next) ==
    /\ mdb' = m
    /\ log' = Append(log, op)
    /\ pc' = next
    /\ UNCHANGED <<Config, err, call>>

Raise(exception) ==
    /\ pc' = "raised"
    /\ err' = exception
    /\ UNCHANGED <<Config, mdb, log, loc, call>>

AfterConstruct == IF AnalysisType = 1 THEN "Assembly_beam" ELSE "final"

Script_CreateModel ==
    /\ pc = "CreateModel"
    /\ Call("CreateModel", CreateModel(mdb), "CreatePart")
    /\ UNCHANGED loc

Script_CreatePart ==
    /\ pc = "CreatePart"
    /\ Call("CreatePart", CreatePart(mdb), "CreateNodes")
    /\ UNCHANGED loc

Script_CreateNodes ==
    /\ pc = "CreateNodes"
    /\ Call("CreateNodes", CreateNodes(mdb), "CreateBeams")
    /\ UNCHANGED loc

Script_CreateBeams ==
    /\ pc = "CreateBeams"
    /\ Call("CreateBeams", CreateBeams(mdb), "mesh_Part")
    /\ UNCHANGED loc

Script_mesh_Part ==
    /\ pc = "mesh_Part"
    /\ Call("mesh_Part", mesh_Part(mdb), "Create_Beam_Profile")
    /\ UNCHANGED loc

Script_Create_Beam_Profile_Mod ==
    /\ pc = "Create_Beam_Profile"
    /\ MethodSim = 1
    /\ \E pick \in FindAtPicks(mdb.edges), order \in UniqueOrders(lattice.radius) :
        LET r == Create_Beam_Profile_Mod(mdb, S_BeamMod, "Circ", pick, order)
        IN  /\ Call("Create_Beam_Profile_Mod", r.m, "create_material")
            /\ loc' = [loc EXCEPT !.name_Beam_Profile = r.name,
                                  !.Region_mid = r.Region_mid,
                                  !.Region_Ext = r.Region_Ext]

Script_Create_Beam_Profile ==
    /\ pc = "Create_Beam_Profile"
    /\ MethodSim = 0
    /\ \E pick \in FindAtPicks(mdb.edges), order \in UniqueOrders(lattice.radius) :
        LET r == Create_Beam_Profile(mdb, S_AllBeams, "Circ", pick, order)
        IN  /\ Call("Create_Beam_Profile", r.m, "create_material")
            /\ loc' = [loc EXCEPT !.name_Beam_Profile = r.name, !.AllBeam = r.AllBeams]

Script_create_material ==
    /\ pc = "create_material"
    /\ LET r == create_material(mdb, 4, 1)
       IN  /\ Call("create_material", r.m, "Create_Beam_Section")
           /\ loc' = [loc EXCEPT !.name_material = r.name]

Script_Create_Beam_Section_Mid ==
    /\ pc = "Create_Beam_Section"
    /\ MethodSim = 1
    /\ IF Len(loc.name_Beam_Profile) < 2
       THEN Raise("IndexError")
       ELSE /\ Call("Create_Beam_Section",
                    Create_Beam_Section(mdb, "CircBeam", loc.name_material,
                                        Py(loc.name_Beam_Profile, 1), loc.Region_mid),
                    "Create_Beam_Section_mod")
            /\ UNCHANGED loc

Script_Create_Beam_Section_Mod ==
    /\ pc = "Create_Beam_Section_mod"
    /\ Call("Create_Beam_Section",
            Create_Beam_Section(mdb, "CircBeammod", loc.name_material,
                                Py(loc.name_Beam_Profile, 0), loc.Region_Ext),
            AfterConstruct)
    /\ UNCHANGED loc

Script_Create_Beam_Section_All ==
    /\ pc = "Create_Beam_Section"
    /\ MethodSim = 0
    /\ IF Len(loc.name_Beam_Profile) < 1
       THEN Raise("IndexError")
       ELSE /\ Call("Create_Beam_Section",
                    Create_Beam_Section(mdb, "CircBeam", loc.name_material,
                                        Py(loc.name_Beam_Profile, 0), loc.AllBeam),
                    AfterConstruct)
            /\ UNCHANGED loc

Script_Assembly_beam ==
    /\ pc = "Assembly_beam"
    /\ Call("Assembly_beam", Assembly_beam(mdb), "CreateSet_Fixed_nodes")
    /\ UNCHANGED loc

Script_CreateSet_Fixed_nodes ==
    /\ pc = "CreateSet_Fixed_nodes"
    /\ Call("CreateSet",
            CreateSet(mdb, lattice, "Fixed_nodes", <<"z", "-">>, lattice.nodes),
            "CreateSet_loaded_nodes")
    /\ UNCHANGED loc

Script_CreateSet_loaded_nodes ==
    /\ pc = "CreateSet_loaded_nodes"
    /\ Call("CreateSet",
            CreateSet(mdb, lattice, "loaded_nodes", <<"z", "+">>, lattice.nodes),
            "Create_Step")
    /\ UNCHANGED loc

Script_Create_Step ==
    /\ pc = "Create_Step"
    /\ Call("Create_Step", Create_Step(mdb, "Step-1", "Initial", AnalysisType),
            "Create_BC_Fixed")
    /\ UNCHANGED loc

Script_Create_BC_Fixed ==
    /\ pc = "Create_BC_Fixed"
    /\ Call("Create_BC_Fixed", Create_BC_Fixed(mdb, "Initial", "Fixed_nodes"), "Create_Loads")
    /\ UNCHANGED loc

Script_Create_Loads ==
    /\ pc = "Create_Loads"
    /\ Call("Create_Loads",
            Create_Loads(mdb, "Step-1", "loaded_nodes", "Load_1", load_vector),
            "Create_GetDisplacement")
    /\ UNCHANGED loc

Script_Create_GetDisplacement ==
    /\ pc = "Create_GetDisplacement"
    /\ Call("Create_GetDisplacement", Create_GetDisplacement(mdb, "Step-1", "loaded_nodes"),
            "Create_GetReactionForce")
    /\ UNCHANGED loc

Script_Create_GetReactionForce ==
    /\ pc = "Create_GetReactionForce"
    /\ Call("Create_GetReactionForce", Create_GetReactionForce(mdb, "Step-1", "Fixed_nodes"),
            "Delete_output_default")
    /\ UNCHANGED loc

Script_Delete_output_default ==
    /\ pc = "Delete_output_default"
    /\ Call("Delete_output_default", Delete_output_default(mdb), "Submit_Job")
    /\ UNCHANGED loc

Script_Submit_Job ==
    /\ pc = "Submit_Job"
    /\ Call("Submit_Job", Submit_Job(mdb, name_Job), "final")
    /\ UNCHANGED loc

Script_SetAbaqusWindows ==
    /\ pc = "final"
    /\ AnalysisType = 0
    /\ Call("SetAbaqusWindows", SetAbaqusWindows(mdb), "done")
    /\ UNCHANGED loc

Script_End ==
    /\ pc = "final"
    /\ AnalysisType # 0
    /\ pc' = "done"
    /\ UNCHANGED <<Config, mdb, log, loc, err, call>>

(* The host's solver runs a submitted job on its own, whatever the script does. *)
Host_JobCompletes ==
    /\ \E j \in DOMAIN mdb.jobs :
        /\ mdb.jobs[j] = "SUBMITTED"
        /\ mdb' = [mdb EXCEPT !.jobs[j] = "COMPLETED"]
    /\ UNCHANGED <<Config, pc, log, loc, err, call>>

Init ==
    /\ lattice \in Lattices
    /\ MethodSim \in {0, 1}
    /\ AnalysisType \in {0, 1}
    /\ mdb = InitMdb
    /\ pc = "CreateModel"
    /\ log = <<>>
    /\ loc = InitLoc
    /\ err = None
    /\ call = NoCall

Next ==
    \/ Script_CreateModel
    \/ Script_CreatePart
    \/ Script_CreateNodes
    \/ Script_CreateBeams
    \/ Script_mesh_Part
    \/ Script_Create_Beam_Profile_Mod
    \/ Script_Create_Beam_Profile
    \/ Script_create_material
    \/ Script_Create_Beam_Section_Mid
    \/ Script_Create_Beam_Section_Mod
    \/ Script_Create_Beam_Section_All
    \/ Script_Assembly_beam
    \/ Script_CreateSet_Fixed_nodes
    \/ Script_CreateSet_loaded_nodes
    \/ Script_Create_Step
    \/ Script_Create_BC_Fixed
    \/ Script_Create_Loads
    \/ Script_Create_GetDisplacement
    \/ Script_Create_GetReactionForce
    \/ Script_Delete_output_default
    \/ Script_Submit_Job
    \/ Script_SetAbaqusWindows
    \/ Script_End
    \/ Host_JobCompletes

Spec == Init /\ [][Next]_vars

(***************************************************************************)
(* Direct calls of single functions on a part that has been built and      *)
(* instanced, with arguments the script itself does not pass.              *)
(***************************************************************************)
BuiltPart == mesh_Part(CreateBeams(CreateNodes(CreatePart(CreateModel(InitMdb)))))

SingleBeamLattices ==
    {Lattice(n, <<(<<0, 1, 0>>)>>, <<1>>) : n \in {k \in 2..MaxNodes : k =< Len(PointSeq)}}

NodePoints == {PointSeq[k] : k \in {j \in 1..(MaxNodes + 1) : j =< Len(PointSeq)}}

NodeDatas ==
    {[k \in DOMAIN ps |-> <<k - 1, ps[k][1], ps[k][2], ps[k][3]>>] :
        ps \in SeqsUpTo(NodePoints, 0, MaxNodeData)}

StepNames == {"Step-1", "Step-2", "Step-3", "Step-4"}

InitCalls(lattices, m) ==
    /\ lattice \in lattices
    /\ MethodSim = 1
    /\ AnalysisType = 1
    /\ mdb = m
    /\ pc = "call"
    /\ log = <<>>
    /\ loc = InitLoc
    /\ err = None
    /\ call = NoCall

InitRegion == InitCalls(Lattices, BuiltPart)

Call_selectBeamRegion ==
    /\ pc = "call"
    /\ \E name_region \in DocumentedRegions, pick \in FindAtPicks(mdb.edges) :
        LET r == selectBeamRegion(mdb, name_region, pick)
        IN  /\ mdb' = r.m
            /\ err' = r.err
            /\ pc' = IF r.err = None THEN "returned" ELSE "raised"
            /\ call' = [op |-> "selectBeamRegion", name_region |-> name_region,
                        ret |-> r.ret, bound |-> r.bound]
    /\ UNCHANGED <<Config, log, loc>>

SpecRegion == InitRegion /\ [][Call_selectBeamRegion]_vars

InitSet == InitCalls(SingleBeamLattices, Assembly_beam(BuiltPart))

Call_CreateSet ==
    /\ pc = "call"
    /\ \E name_Set \in {"Fixed_nodes", "loaded_nodes"}, Position \in Positions,
          node_data \in NodeDatas :
        /\ mdb' = CreateSet(mdb, lattice, name_Set, Position, node_data)
        /\ call' = [op |-> "CreateSet", name_Set |-> name_Set, Position |-> Position,
                    node_data |-> node_data]
    /\ pc' = "returned"
    /\ UNCHANGED <<Config, log, loc, err>>

SpecSet == InitSet /\ [][Call_CreateSet]_vars

InitStep == InitCalls(SingleBeamLattices, Assembly_beam(BuiltPart))

Call_Create_Step ==
    /\ pc = "call"
    /\ Len(mdb.steps) =< MaxSteps
    /\ \E name_step \in StepNames \ Range(mdb.steps), name_previous_step \in Range(mdb.steps),
          AType \in {1, 2} :
        /\ mdb' = Create_Step(mdb, name_step, name_previous_step, AType)
        /\ call' = [op |-> "Create_Step", name_step |-> name_step,
                    name_previous_step |-> name_previous_step, AnalysisType |-> AType,
                    before |-> mdb.steps]
    /\ UNCHANGED <<Config, pc, log, loc, err>>

SpecStep == InitStep /\ [][Call_Create_Step]_vars

(***************************************************************************)
(* Properties.                                                             *)
(***************************************************************************)
Phase(op) ==
    CASE op \in {"CreateModel", "CreatePart", "CreateNodes", "CreateBeams"} -> 1
      [] op = "mesh_Part" -> 2
      [] op \in {"Create_Beam_Profile_Mod", "Create_Beam_Profile"} -> 3
      [] op = "create_material" -> 4
      [] op = "Create_Beam_Section" -> 5
      [] op \in {"Assembly_beam", "CreateSet"} -> 6
      [] op \in {"Create_Step", "Create_BC_Fixed", "Create_Loads", "Create_GetDisplacement",
                 "Create_GetReactionForce", "Delete_output_default"} -> 7
      [] op = "Submit_Job" -> 8
      [] OTHER -> 9

PhasesInOrder ==
    /\ \A i, j \in DOMAIN log : i < j => Phase(log[i]) =< Phase(log[j])
    /\ \A i \in DOMAIN log : log[i] = "Submit_Job" => i = Len(log)

ScriptEnded == pc \in {"done", "raised"}

(* C1: when the script runs with AnalysisType = 1 the host operations happen in
   phase order (geometry, mesh, profiles, material, sections, assembly and sets,
   step with conditions and requests, job submission), and once the script has
   ended every phase has happened, the job has been submitted exactly once and
   nothing follows the submission. *)
C1_PhaseOrderAndOneSubmission ==
    AnalysisType = 1 =>
        /\ PhasesInOrder
        /\ ScriptEnded =>
            /\ \A ph \in 1..8 : \E i \in DOMAIN log : Phase(log[i]) = ph
            /\ Cardinality({i \in DOMAIN log : log[i] = "Submit_Job"}) = 1

ConstructEnded ==
    pc \notin {"CreateModel", "CreatePart", "CreateNodes", "CreateBeams", "mesh_Part",
               "Create_Beam_Profile", "create_material", "Create_Beam_Section",
               "Create_Beam_Section_mod"}

SectionAssigned(section, set) ==
    \E a \in mdb.assign : a.sectionName = section /\ a.region = set

(* C2: when constructLatticeAbaqus has run with MethodSim = 1, whatever
   lattice.radius holds, section CircBeam is created and assigned to BeamMid,
   section CircBeammod is created and assigned to BeamMod, and the two sections
   reference two different circular profiles that exist. *)
C2_BothSectionsTwoProfiles ==
    (MethodSim = 1 /\ ConstructEnded) =>
        /\ {"CircBeam", "CircBeammod"} \subseteq DOMAIN mdb.sections
        /\ SectionAssigned("CircBeam", S_BeamMid)
        /\ SectionAssigned("CircBeammod", S_BeamMod)
        /\ mdb.sections["CircBeam"].profile # mdb.sections["CircBeammod"].profile
        /\ {mdb.sections["CircBeam"].profile, mdb.sections["CircBeammod"].profile}
                \subseteq DOMAIN mdb.profiles

(* C3: selectBeamRegion called with any region name of its documentation
   completes without raising and returns the selected region(s). *)
C3_DocumentedNamesAccepted ==
    (call.op = "selectBeamRegion" /\ call.name_region \in DocumentedRegions) =>
        /\ err = None
        /\ pc = "returned"
        /\ call.bound

AxisIndex(Position) ==
    CASE Position[1] = "x" -> 2
      [] Position[1] = "y" -> 3
      [] Position[1] = "z" -> 4

Extreme(Position) ==
    CASE Position = <<"x", "+">> -> lattice.xMax
      [] Position = <<"x", "-">> -> lattice.xMin
      [] Position = <<"y", "+">> -> lattice.yMax
      [] Position = <<"y", "-">> -> lattice.yMin
      [] Position = <<"z", "+">> -> lattice.zMax
      [] Position = <<"z", "-">> -> lattice.zMin

AtExtreme(nd) == nd[AxisIndex(call.Position)] = Extreme(call.Position)

(* C4: CreateSet creates name_Set from exactly the entries of node_data whose
   coordinate along the axis of Position equals the lattice maximum ('+') or
   minimum ('-') on that axis, all of them, in node_data order, and no others. *)
C4_SetIsExtremeNodes ==
    call.op = "CreateSet" =>
        LET sel == SelectSeq(call.node_data, AtExtreme)
        IN  /\ call.name_Set \in DOMAIN mdb.asets
            /\ mdb.asets[call.name_Set] =
                    [k \in DOMAIN sel |-> <<sel[k][2], sel[k][3], sel[k][4]>>]

C4_Witness ==
    /\ call.op = "CreateSet"
    /\ call.Position = <<"y", "-">>
    /\ Len(call.node_data) = 2
    /\ Len(mdb.asets[call.name_Set]) = 1
    /\ AtExtreme(call.node_data[2])

(* C5: Create_Step creates exactly one step named name_step after
   name_previous_step, a static step when AnalysisType is 1 and an implicit
   step when AnalysisType is 2. *)
C5_StepKindFollowsAnalysisType ==
    call.op = "Create_Step" =>
        /\ mdb.steps = InsertAfter(call.before, call.name_previous_step, call.name_step)
        /\ call.name_step \in DOMAIN mdb.stepdef
        /\ mdb.stepdef[call.name_step].kind =
                IF call.AnalysisType = 1 THEN "StaticStep" ELSE "ImplicitDynamicsStep"

(* C6: Submit_Job does not return before the job it submitted has completed. *)
C6_SubmitReturnsAfterCompletion ==
    (\E i \in DOMAIN log : log[i] = "Submit_Job") =>
        /\ name_Job \in DOMAIN mdb.jobs
        /\ mdb.jobs[name_Job] = "COMPLETED"

Type0Beams == {i \in 0..(Len(lattice.beams) - 1) : Py(Py(lattice.beams, i), 3) = 0}

(* C7: after selectBeamRegion('BeamMod') the sets BeamMid and BeamMod are
   disjoint, their union is AllBeams, BeamMid holds exactly the edges found at
   the midpoints of the beams of type 0, and the function returns the pair
   (BeamMid region, BeamMod region). *)
C7_MidModPartitionAllBeams ==
    (call.op = "selectBeamRegion" /\ call.name_region = S_BeamMod) =>
        LET mid == mdb.sets[S_BeamMid]
            mod == mdb.sets[S_BeamMod]
            all == mdb.sets[S_AllBeams]
        IN  /\ mid \cap mod = {}
            /\ mid \cup mod = all
            /\ \A e \in mid : \E i \in Type0Beams : OnEdge(MidPoint(i), e)
            /\ \A i \in Type0Beams : \E e \in mid : OnEdge(MidPoint(i), e)
            /\ call.ret = <<Region(S_BeamMid, mid), Region(S_BeamMod, mod)>>

C7_Witness ==
    /\ call.op = "selectBeamRegion"
    /\ call.name_region = S_BeamMod
    /\ pc = "returned"
    /\ mdb.sets[S_BeamMid] # {}
    /\ mdb.sets[S_BeamMod] # {}

====
